---------------------------- MODULE Spec2Model ----------------------------
(***************************************************************************)
(* A model of src/compunent/Line.tsx: the curve interpolator               *)
(* bezierCurveThrough and the animation driver set up by Line's useEffect  *)
(* (renderCurves, the effect cleanup) running against a host frame clock   *)
(* (requestAnimationFrame / cancelAnimationFrame / performance.now) and a  *)
(* canvas context whose commands are logged.                               *)
(*                                                                         *)
(* Numbers.  A JavaScript number is modelled as an exact real of the form  *)
(* a + b*sqrt(m) with a, b, m rational, or NaN.  Every value the code      *)
(* computes from rational inputs has this form: the only irrational        *)
(* operation is Math.sqrt in h, and the only division that can have a zero *)
(* divisor is rdx / rd, which is then 0 / 0 = NaN.  Rounding of IEEE       *)
(* doubles is not modelled.                                                *)
(***************************************************************************)
EXTENDS Integers, Sequences, FiniteSets, TLC

(***************************************************************************)
(* Rationals <<n, d>>, d > 0, in lowest terms.                             *)
(***************************************************************************)
Abs(i) == IF i < 0 THEN -i ELSE i

RECURSIVE Gcd(_, _)
Gcd(x, y) == IF y = 0 THEN x ELSE Gcd(y, x % y)

\* n / d reduced by g, the denominator made positive
Reduced(n, d, g) == IF d < 0 THEN <<(-n) \div g, (-d) \div g>> ELSE <<n \div g, d \div g>>
RNorm(n, d) == Reduced(n, d, Gcd(Abs(n), Abs(d)))

R(i) == <<i, 1>>
RZero == R(0)
RAdd(p, q) == RNorm(p[1] * q[2] + q[1] * p[2], p[2] * q[2])
RNeg(p) == <<-p[1], p[2]>>
RSub(p, q) == RAdd(p, RNeg(q))
RMul(p, q) == RNorm(p[1] * q[1], p[2] * q[2])
RInv(p) == RNorm(p[2], p[1])
RDiv(p, q) == RMul(p, RInv(q))

\* the integer square root, by bisection between lo and hi
RECURSIVE ISqrtIn(_, _, _)
ISqrtIn(n, lo, hi) ==
    IF lo >= hi THEN lo
    ELSE LET mid == (lo + hi + 1) \div 2
         IN  IF mid * mid <= n THEN ISqrtIn(n, mid, hi) ELSE ISqrtIn(n, lo, mid - 1)
ISqrt(n) ==
    IF n < 1024 THEN ISqrtIn(n, 0, 32)
    ELSE IF n < 1048576 THEN ISqrtIn(n, 32, 1024)
    ELSE ISqrtIn(n, 1024, 46340)

(***************************************************************************)
(* Numbers: NaN, or a + b*sqrt(m).  m is <<0,1>> when b is zero, and a     *)
(* radicand that is the square of a rational is folded into a.             *)
(***************************************************************************)
NaN == [nan |-> TRUE, a |-> RZero, b |-> RZero, m |-> RZero]
\* a + b*sqrt(m), for m zero or not the square of a rational
MkNum(a, b, m) ==
    IF b = RZero \/ m = RZero THEN [nan |-> FALSE, a |-> a, b |-> RZero, m |-> RZero]
    ELSE [nan |-> FALSE, a |-> a, b |-> b, m |-> m]
\* b*sqrt(m), given the integer square roots s1 and s2 of m's numerator and
\* denominator
SurdBy(b, m, s1, s2) ==
    IF s1 * s1 = m[1] /\ s2 * s2 = m[2]
    THEN [nan |-> FALSE, a |-> RMul(b, <<s1, s2>>), b |-> RZero, m |-> RZero]
    ELSE MkNum(RZero, b, m)
\* b*sqrt(m), for any m >= 0
Surd(b, m) == SurdBy(b, m, ISqrt(m[1]), ISqrt(m[2]))
Q(r) == MkNum(r, RZero, RZero)
N(i) == Q(R(i))
IsRat(x) == ~x.nan /\ x.b = RZero
\* the radicand two numbers share; the code never combines two different ones
Rad(x, y) ==
    CASE x.b = RZero -> y.m
      [] y.b = RZero -> x.m
      [] x.m = y.m -> x.m

Add(x, y) ==
    IF x.nan \/ y.nan THEN NaN
    ELSE MkNum(RAdd(x.a, y.a), RAdd(x.b, y.b), Rad(x, y))
Neg(x) == IF x.nan THEN NaN ELSE MkNum(RNeg(x.a), RNeg(x.b), x.m)
Sub(x, y) == Add(x, Neg(y))
\* (a + b*sqrt(m)) * (c + d*sqrt(m)), m the radicand the two share
MulBy(x, y, m) ==
    MkNum(RAdd(RMul(x.a, y.a), RMul(RMul(x.b, y.b), m)),
          RAdd(RMul(x.a, y.b), RMul(x.b, y.a)), m)
Mul(x, y) ==
    IF x.nan \/ y.nan THEN NaN
    ELSE IF x.a = RZero /\ y.a = RZero
         THEN \* b*sqrt(m) * d*sqrt(k) = b*d*sqrt(m*k)
              Surd(RMul(x.b, y.b), RMul(x.m, y.m))
         ELSE MulBy(x, y, Rad(x, y))
\* Math.sqrt of a rational; a negative argument gives NaN
Sqrt(x) ==
    IF x.nan \/ ~IsRat(x) \/ x.a[1] < 0 THEN NaN
    ELSE Surd(R(1), x.a)
\* x / y for y rational or a pure b*sqrt(m): 1/(b*sqrt(m)) = (1/b)*sqrt(1/m).
\* A zero divisor is reached by the code only as 0 / 0, which is NaN.
Div(x, y) ==
    IF x.nan \/ y.nan THEN NaN
    ELSE IF y.a = RZero /\ y.b = RZero THEN NaN
    ELSE CASE y.b = RZero -> MkNum(RDiv(x.a, y.a), RDiv(x.b, y.a), x.m)
           [] y.b # RZero /\ y.a = RZero -> Mul(x, MkNum(RZero, RInv(y.b), RInv(y.m)))

\* JavaScript's truthiness of a number: 0 and NaN are falsy
Truthy(x) == ~x.nan /\ ~(x.a = RZero /\ x.b = RZero)

(***************************************************************************)
(* The canvas context and the host clock are observed through a log of the *)
(* commands issued to them: [op, args].                                    *)
(***************************************************************************)
Cmd(op, args) == [op |-> op, args |-> args]


(***************************************************************************)
(* bezierCurveThrough(ctx, points, tension): the commands it issues to     *)
(* ctx, in order.  points is a sequence of pairs of numbers; the code's    *)
(* index i is the model's index i + 1.                                     *)
(***************************************************************************)
DefaultTension == Q(<<1, 4>>)

\* tension = tension || 0.25
EffectiveTension(tension) == IF Truthy(tension) THEN tension ELSE DefaultTension

\* the helper h(x, y): the hypotenuse
h(x, y) == Sqrt(Add(Mul(x, x), Mul(y, y)))

\* how far along the tangent component d a control point is put
TangentOffsetFixed(d, dist, tension) == Mul(Mul(d, dist), Q(<<1, 4>>))
TangentOffset(d, dist, tension) == Mul(Mul(d, dist), tension)

\* the normalized tangent slope vector (dx, dy) of the actual deltas, which
\* are rd long
Normalized(rdx, rdy, rd) == <<Div(rdx, rd), Div(rdy, rd)>>
Tangent(rdx, rdy) == Normalized(rdx, rdy, h(rdx, rdy))

\* the control points of the point pi on its tangent d, dp away from the
\* previous point and dn away from the next
ControlPair(pi, d, dp, dn, tension) ==
    [cp |-> << Sub(pi[1], TangentOffset(d[1], dp, tension)),
               Sub(pi[2], TangentOffset(d[2], dp, tension)) >>,
     cn |-> << Add(pi[1], TangentOffset(d[1], dn, tension)),
               Add(pi[2], TangentOffset(d[2], dn, tension)) >>]

\* the body of the loop over the interior points: the two control points of
\* the current point pi, from the previous point pp and the next point pn
InteriorControl(pp, pi, pn, tension) ==
    ControlPair(pi,
                Tangent(Sub(pn[1], pp[1]), Sub(pn[2], pp[2])),
                h(Sub(pi[1], pp[1]), Sub(pi[2], pp[2])),
                h(Sub(pi[1], pn[1]), Sub(pi[2], pn[2])),
                tension)

\* the one control point of an end point: the middle between the end point
\* and the facing control point c of its neighbour
EndControl(p, c) == <<Div(Add(p[1], c[1]), N(2)), Div(Add(p[2], c[2]), N(2))>>

\* the loop for (var i = 1; i < l - 1; i++), from the model's index i on:
\* the control points of the interior points i .. l - 1
RECURSIVE InteriorLoop(_, _, _)
InteriorLoop(points, tension, i) ==
    IF i < Len(points)
    THEN << InteriorControl(points[i - 1], points[i], points[i + 1], tension) >>
         \o InteriorLoop(points, tension, i + 1)
    ELSE << >>

\* cpoints once the two end points have got theirs, inner being the control
\* points of the interior points
WithEndControls(points, inner) ==
    << [cn |-> EndControl(points[1], inner[1].cp)] >>
    \o inner
    \o << [cp |-> EndControl(points[Len(points)], inner[Len(inner)].cn)] >>

\* cpoints as it stands when the drawing starts (l >= 3)
ControlPoints(points, tension) ==
    WithEndControls(points, InteriorLoop(points, tension, 2))

\* the drawing loop for (i = 1; i < l; i++): one bezierCurveTo for each
\* point after the first, from the "next control point" of the point before
\* it and its own "previous control point"
CurveSegmentsFromSecond(points, cpoints) ==
    [j \in 1..(Len(points) - 2) |->
        Cmd("bezierCurveTo",
            <<cpoints[j + 1].cn[1], cpoints[j + 1].cn[2],
              cpoints[j + 2].cp[1], cpoints[j + 2].cp[2],
              points[j + 2][1], points[j + 2][2]>>)]
CurveSegmentsToPrevious(points, cpoints) ==
    [j \in 1..(Len(points) - 1) |->
        Cmd("bezierCurveTo",
            <<cpoints[j].cn[1], cpoints[j].cn[2],
              cpoints[j + 1].cp[1], cpoints[j + 1].cp[2],
              points[j][1], points[j][2]>>)]
CurveSegments(points, cpoints) ==
    [j \in 1..(Len(points) - 1) |->
        Cmd("bezierCurveTo",
            <<cpoints[j].cn[1], cpoints[j].cn[2],
              cpoints[j + 1].cp[1], cpoints[j + 1].cp[2],
              points[j + 1][1], points[j + 1][2]>>)]

\* what has been issued when the function returns for fewer than two points
EarlyReturnAfterBeginPath == << Cmd("beginPath", << >>) >>
EarlyReturn == << >>

\* the branch for two points, after beginPath
StraightLineAsCurve(points) ==
    << Cmd("moveTo", <<points[1][1], points[1][2]>>),
       Cmd("bezierCurveTo", <<points[1][1], points[1][2], points[2][1], points[2][2],
                              points[2][1], points[2][2]>>),
       Cmd("stroke", << >>) >>
StraightLine(points) ==
    << Cmd("moveTo", <<points[1][1], points[1][2]>>),
       Cmd("lineTo", <<points[2][1], points[2][2]>>),
       Cmd("stroke", << >>) >>

bezierCurveThrough(points, tension) ==
    IF Len(points) < 2 THEN EarlyReturn
    ELSE IF Len(points) = 2
         THEN << Cmd("beginPath", << >>) >> \o StraightLine(points)
         ELSE << Cmd("beginPath", << >>),
                 Cmd("moveTo", <<points[1][1], points[1][2]>>) >>
              \o CurveSegments(points, ControlPoints(points, EffectiveTension(tension)))
              \o << Cmd("stroke", << >>) >>

(***************************************************************************)
(* The inputs bezierCurveThrough is called on when it is checked alone.    *)
(***************************************************************************)
MaxLen == 4
\* (1,1) gives irrational distances, and a repeated point a zero tangent
Pts == { <<N(0), N(0)>>, <<N(3), N(0)>>, <<N(3), N(4)>>, <<N(1), N(1)>> }
Tensions == { N(0), Q(<<1, 4>>), Q(<<1, 2>>), N(1) }
PointSeqs == UNION { [1..n -> Pts] : n \in 0..MaxLen }

(***************************************************************************)
(* The animation driver: renderCurves and the effect cleanup of Line.      *)
(***************************************************************************)
Period == 5000
Amplitude == 40
NumCurves == 70
CanvasWidth == 800
CanvasHeight == 600
startColor == <<38, 69, 187>>
endColor == <<238, 0, 53>>

\* a variable that has not been assigned (let startFrame: number;)
Undefined == << >>

\* Math.round of a rational: to the nearest integer, a half towards +infinity
Round(r) == (2 * r[1] + r[2]) \div (2 * r[2])

\* Math.sin(progress * Math.PI * 2), at the quarter turns (the timestamps of
\* the model are whole quarters of Period)
SinQuarters(q) ==
    CASE q[2] = 1 /\ q[1] % 2 = 0 -> N(0)
      [] q[2] = 1 /\ q[1] % 4 = 1 -> N(1)
      [] q[2] = 1 /\ q[1] % 4 = 3 -> N(-1)
Sin2Pi(progress) == SinQuarters(RMul(R(4), progress))

\* one channel c of the stroke color of curve i
Channel(c, i) ==
    Round(RAdd(R(startColor[c]),
               RMul(R(endColor[c] - startColor[c]), RNorm(i, NumCurves))))

\* the way points of curve i at displacement k
WayPoints(i, k) ==
    << <<N(0), N(0 + i * 4)>>,
       <<Add(N(230), k), Add(N(100 + i * 9), k)>>,
       <<Add(N(500), k), Add(N(300 + i * 9), k)>>,
       <<N(800), N(300 + i * 8)>> >>

\* the body of the loop over the curves: the commands of curve i
CurveBody(i, k) ==
    << Cmd("strokeStyle", <<N(Channel(1, i)), N(Channel(2, i)), N(Channel(3, i))>>) >>
    \o bezierCurveThrough(WayPoints(i, k), Q(<<1, 4>>))

\* the loop for (let i = 0; i < 70; i++), from i on
RECURSIVE CurveLoop(_, _)
CurveLoop(i, k) ==
    IF i < NumCurves THEN CurveBody(i, k) \o CurveLoop(i + 1, k) ELSE << >>

\* what renderCurves issues to the surface when the elapsed time is el
Displacement(progress) == Mul(Sin2Pi(progress), N(Amplitude))
DrawFrame(el) ==
    << Cmd("clearRect", <<N(0), N(0), N(CanvasWidth), N(CanvasHeight)>>) >>
    \o CurveLoop(0, Displacement(RNorm(el, Period)))

(***************************************************************************)
(* Bounds of the driver's runs: the host's clock goes from 0 to MaxTime    *)
(* steps of a quarter of Period, and renderCurves runs MaxTicks times.     *)
(***************************************************************************)
MaxTime == 6
MaxTicks == 4
TimeStep == Period \div 4

\* DrawFrame, tabulated once over the elapsed times the bounds allow:
\* FrameTable[j] is DrawFrame((j - 1 - MaxTime) * TimeStep)
RECURSIVE FramesFrom(_)
FramesFrom(j) ==
    IF j <= MaxTime THEN << DrawFrame(j * TimeStep) >> \o FramesFrom(j + 1) ELSE << >>
FrameTable == FramesFrom(-MaxTime)
DrawFrameAt(el) == FrameTable[el \div TimeStep + MaxTime + 1]

(***************************************************************************)
(* The host frame clock.  requestAnimationFrame registers a callback under *)
(* a fresh handle; cancelAnimationFrame removes it.  d is the state the    *)
(* driver's closure and the host's callback map are in.                    *)
(***************************************************************************)
requestAnimationFrame(d) ==
    [d EXCEPT !.pending = d.pending \cup {d.nextHandle},
              !.nextHandle = d.nextHandle + 1,
              !.cmds = d.cmds \o << Cmd("requestAnimationFrame", <<N(d.nextHandle)>>) >>]

cancelAnimationFrame(d, handle) ==
    [d EXCEPT !.pending = d.pending \ {handle},
              !.cmds = d.cmds \o << Cmd("cancelAnimationFrame", <<N(handle)>>) >>]

\* renderCurves(timeStamp), run to completion; sf is startFrame after
\* startFrame ??= timeStamp
Drawn(d, sf, el) ==
    [d EXCEPT !.startFrame = <<sf>>,
              !.elapsed = <<el>>,
              !.ticks = d.ticks + 1,
              !.cmds = d.cmds \o DrawFrameAt(el)]
\* lastFrame = window.requestAnimationFrame(renderCurves)
Requested(d, handle) == [requestAnimationFrame(d) EXCEPT !.lastFrame = <<handle>>]
TickRequestFirst(d, sf, timeStamp) == Drawn(Requested(d, d.nextHandle), sf, timeStamp - sf)
TickUntilPeriod(d, sf, timeStamp) ==
    IF timeStamp - sf > Period
    THEN Drawn(d, sf, timeStamp - sf)
    ELSE Requested(Drawn(d, sf, timeStamp - sf), d.nextHandle)
Tick(d, sf, timeStamp) == Requested(Drawn(d, sf, timeStamp - sf), d.nextHandle)
renderCurves(d, timeStamp) ==
    Tick(d, IF d.startFrame = Undefined THEN timeStamp ELSE d.startFrame[1], timeStamp)

\* the effect cleanup
reset(d) == [d EXCEPT !.cmds = d.cmds \o << Cmd("reset", << >>) >>]
cleanupNoCancel(d) == reset(d)
cleanupDrawsAgain(d) == reset(reset(cancelAnimationFrame(d, d.lastFrame[1])))
cleanup(d) == reset(cancelAnimationFrame(d, d.lastFrame[1]))

\* the host runs the callbacks registered under handles, in increasing order
\* of handle, a callback being removed from the map before it is invoked
Min(S) == CHOOSE x \in S : \A y \in S : x <= y
RECURSIVE RunCallbacks(_, _, _)
RunCallbacks(d, handles, timeStamp) ==
    IF handles = {} THEN d
    ELSE LET hd == Min(handles)
         IN  IF hd \in d.pending
             THEN RunCallbacks(renderCurves([d EXCEPT !.pending = d.pending \ {hd}],
                                            timeStamp),
                               handles \ {hd}, timeStamp)
             ELSE RunCallbacks(d, handles \ {hd}, timeStamp)

VARIABLES
    argPoints,  \* the points argument of the call of bezierCurveThrough
    argTension, \* its tension argument
    called,     \* whether the call has been made
    cmds,       \* the commands the most recent handler or call issued, in order
    phase,      \* "idle" before the effect runs, "running", "stopped" after the cleanup
    startFrame, \* the closure's startFrame
    lastFrame,  \* the closure's lastFrame
    elapsed,    \* the elapsed time the most recent tick computed
    ticks,      \* how many times renderCurves has run
    pending,    \* the host's map of animation frame callbacks (its handles)
    nextHandle, \* the handle the host gives out next
    now,        \* the host's clock (performance.now())
    frameTs,    \* the timestamp of the latest rendering opportunity
    frameOpen   \* whether that frame's callbacks are still to be run

curveVars == <<argPoints, argTension, called>>
driverVars == <<phase, startFrame, lastFrame, elapsed, ticks, pending, nextHandle>>
hostVars == <<now, frameTs, frameOpen>>
vars == <<argPoints, argTension, called, cmds, phase, startFrame, lastFrame, elapsed, ticks,
          pending, nextHandle, now, frameTs, frameOpen>>

DriverInit ==
    /\ phase = "idle"
    /\ startFrame = Undefined
    /\ lastFrame = Undefined
    /\ elapsed = Undefined
    /\ ticks = 0
    /\ pending = {}
    /\ nextHandle = 1
    /\ now = 0
    /\ frameTs = 0
    /\ frameOpen = FALSE

(***************************************************************************)
(* bezierCurveThrough alone.                                               *)
(***************************************************************************)
CurveInit ==
    /\ argPoints \in PointSeqs
    /\ argTension \in Tensions
    /\ called = FALSE
    /\ cmds = << >>
    /\ DriverInit

Render ==
    /\ ~called
    /\ called' = TRUE
    /\ cmds' = bezierCurveThrough(argPoints, argTension)
    /\ UNCHANGED <<argPoints, argTension, driverVars, hostVars>>

CurveNext == Render

CurveSpec == CurveInit /\ [][CurveNext]_vars

(***************************************************************************)
(* The driver under the host.                                              *)
(***************************************************************************)
\* the driver's state at the start of a handler, whose log is empty
Driver ==
    [startFrame |-> startFrame, lastFrame |-> lastFrame, elapsed |-> elapsed,
     ticks |-> ticks, pending |-> pending, nextHandle |-> nextHandle, cmds |-> << >>]

Becomes(d) ==
    /\ startFrame' = d.startFrame
    /\ lastFrame' = d.lastFrame
    /\ elapsed' = d.elapsed
    /\ ticks' = d.ticks
    /\ pending' = d.pending
    /\ nextHandle' = d.nextHandle
    /\ cmds' = d.cmds

Init ==
    /\ argPoints = << >>
    /\ argTension = N(0)
    /\ called = FALSE
    /\ cmds = << >>
    /\ DriverInit

\* the effect: renderCurves(performance.now())
Mount ==
    /\ phase = "idle"
    /\ phase' = "running"
    /\ Becomes(renderCurves(Driver, now))
    /\ UNCHANGED <<curveVars, hostVars>>

\* the host signals teardown: the effect's cleanup runs
Teardown ==
    /\ phase = "running"
    /\ phase' = "stopped"
    /\ Becomes(cleanup(Driver))
    /\ UNCHANGED <<curveVars, hostVars>>

\* time passes
HostAdvance ==
    /\ now < MaxTime * TimeStep
    /\ now' = now + TimeStep
    /\ UNCHANGED <<curveVars, cmds, driverVars, frameTs, frameOpen>>

\* a rendering opportunity: the frame's timestamp is taken and the running of
\* its callbacks is queued as a task, behind the tasks that are already
\* waiting (the effect, the cleanup); a callback is given the timestamp of
\* its frame, not the time at which it runs
HostBeginFrame ==
    /\ ~frameOpen
    /\ frameOpen' = TRUE
    /\ frameTs' = now
    /\ UNCHANGED <<curveVars, cmds, driverVars, now>>

\* the frame's callbacks run with the frame's timestamp
HostRunFrame ==
    /\ frameOpen
    /\ pending # {}
    /\ ticks < MaxTicks
    /\ frameOpen' = FALSE
    /\ Becomes(RunCallbacks(Driver, pending, frameTs))
    /\ UNCHANGED <<curveVars, phase, now, frameTs>>

\* a frame with no callback registered
HostIdleFrame ==
    /\ frameOpen
    /\ pending = {}
    /\ frameOpen' = FALSE
    /\ UNCHANGED <<curveVars, cmds, driverVars, now, frameTs>>

Next ==
    \/ Mount
    \/ Teardown
    \/ HostAdvance
    \/ HostBeginFrame
    \/ HostRunFrame
    \/ HostIdleFrame

Spec == Init /\ [][Next]_vars

\* the host's frame clock keeps firing
FairSpec ==
    Spec /\ WF_vars(HostBeginFrame) /\ WF_vars(HostRunFrame) /\ WF_vars(HostIdleFrame)


(***************************************************************************)
(* Properties of bezierCurveThrough, under CurveSpec.                      *)
(***************************************************************************)
Count(log, op) == Cardinality({j \in 1..Len(log) : log[j].op = op})
SurfaceOps == {"beginPath", "moveTo", "lineTo", "bezierCurveTo", "stroke",
               "clearRect", "strokeStyle", "reset"}
\* the call has been made on n points
CalledOn(n) == called /\ Len(argPoints) = n
CalledOnCurve == called /\ Len(argPoints) >= 3

\* C3: for n >= 3 points, coincident ones included, one call issues exactly
\* beginPath, moveTo(points[0]), n - 1 bezierCurveTo and stroke, in this
\* order and nothing else (no clear, no change of the stroke color).
C3_CommandSequence ==
    CalledOnCurve =>
        /\ Len(cmds) = Len(argPoints) + 2
        /\ cmds[1] = Cmd("beginPath", << >>)
        /\ cmds[2] = Cmd("moveTo", argPoints[1])
        /\ \A j \in 3..(Len(argPoints) + 1) : cmds[j].op = "bezierCurveTo"
        /\ cmds[Len(cmds)] = Cmd("stroke", << >>)
C3_Witness ==
    /\ CalledOnCurve
    /\ Len(argPoints) >= 4
    /\ argPoints[1] = argPoints[3]
    /\ Count(cmds, "bezierCurveTo") = Len(argPoints) - 1

\* C4: for n >= 3 points the path passes through every point in order:
\* moveTo goes to points[0] and the i-th bezierCurveTo ends at points[i],
\* whatever the tension and the control points (a zero tangent included).
C4_PassesThroughPoints ==
    CalledOnCurve =>
        /\ cmds[2].op = "moveTo" /\ cmds[2].args = argPoints[1]
        /\ \A i \in 2..Len(argPoints) :
              /\ cmds[i + 1].op = "bezierCurveTo"
              /\ <<cmds[i + 1].args[5], cmds[i + 1].args[6]>> = argPoints[i]
C4_Witness ==
    /\ CalledOnCurve
    /\ \E j \in 1..Len(cmds) :
          /\ cmds[j].op = "bezierCurveTo"
          /\ cmds[j].args[1].nan
          /\ <<cmds[j].args[5], cmds[j].args[6]>> = argPoints[j - 1]

\* C5: on 0 or 1 points the call issues no command at all.
C5_NothingDrawn ==
    (called /\ Len(argPoints) < 2) => cmds = << >>
C5_Witness == CalledOn(1) /\ cmds = << >>

\* C6: on exactly 2 points the call draws one straight segment: one lineTo
\* from points[0] to points[1], then one stroke, and no bezierCurveTo, for
\* every tension.
C6_StraightSegment ==
    CalledOn(2) =>
        /\ Count(cmds, "lineTo") = 1
        /\ Count(cmds, "stroke") = 1
        /\ Count(cmds, "bezierCurveTo") = 0
        /\ \E j \in 2..(Len(cmds) - 1) :
              /\ cmds[j - 1] = Cmd("moveTo", argPoints[1])
              /\ cmds[j] = Cmd("lineTo", argPoints[2])
              /\ cmds[j + 1] = Cmd("stroke", << >>)
C6_Witness ==
    /\ CalledOn(2)
    /\ Truthy(argTension) /\ argTension # DefaultTension
    /\ argPoints[1] # argPoints[2]
    /\ Count(cmds, "lineTo") = 1

\* the square of the distance between the control point c and the way point w
Dist2(c, w) ==
    Add(Mul(Sub(c[1], w[1]), Sub(c[1], w[1])), Mul(Sub(c[2], w[2]), Sub(c[2], w[2])))
\* the control point c2 is twice as far from w as c1 is
TwiceAsFar(c1, c2, w) == Dist2(c2, w) = Mul(N(4), Dist2(c1, w))
\* the same call with the tension doubled
CmdsAtDoubleTension == bezierCurveThrough(argPoints, Mul(N(2), argTension))
\* the two control points of the bezierCurveTo that ends in point i: the
\* first belongs to the way point i - 1, the second to the way point i
FirstControl(log, i) == <<log[i + 1].args[1], log[i + 1].args[2]>>
SecondControl(log, i) == <<log[i + 1].args[3], log[i + 1].args[4]>>
Defined(c) == ~c[1].nan /\ ~c[2].nan

\* C7, as claimed: doubling a non-zero tension doubles the distance of every
\* control point passed to a bezierCurveTo from its way point, those of the
\* two end points included.
C7_EveryControlPointScales ==
    (CalledOnCurve /\ Truthy(argTension)) =>
        \A i \in 2..Len(argPoints) :
            /\ TwiceAsFar(FirstControl(cmds, i), FirstControl(CmdsAtDoubleTension, i),
                          argPoints[i - 1])
            /\ TwiceAsFar(SecondControl(cmds, i), SecondControl(CmdsAtDoubleTension, i),
                          argPoints[i])

\* C7, amended: doubling a non-zero tension doubles the distance from its way
\* point of each control point of an interior point whose tangent is
\* defined; the control points of the two end points are left out.
C7_InteriorControlPointsScale ==
    (CalledOnCurve /\ Truthy(argTension)) =>
        \A i \in 2..(Len(argPoints) - 1) :
            /\ Defined(SecondControl(cmds, i)) =>
                  TwiceAsFar(SecondControl(cmds, i), SecondControl(CmdsAtDoubleTension, i),
                             argPoints[i])
            /\ Defined(FirstControl(cmds, i + 1)) =>
                  TwiceAsFar(FirstControl(cmds, i + 1),
                             FirstControl(CmdsAtDoubleTension, i + 1), argPoints[i])
C7_Witness ==
    /\ CalledOnCurve /\ Truthy(argTension)
    /\ Defined(SecondControl(cmds, 2))
    /\ Dist2(SecondControl(cmds, 2), argPoints[2]) # N(0)
    /\ ~IsRat(SecondControl(cmds, 2)[1])


(***************************************************************************)
(* Properties of the driver, under Spec and FairSpec.                      *)
(***************************************************************************)
\* the timestamp the most recent tick was given
LastTickTs == startFrame[1] + elapsed[1]
\* a frame later than the last tick has been run since the teardown
FrameRanAfterTeardown ==
    phase = "stopped" /\ ~frameOpen /\ frameTs > LastTickTs

\* C1: once the cleanup has run, renderCurves never runs again, whenever the
\* teardown comes and however long the host's frames go on: the request
\* pending at the teardown is the one the cleanup cancels, and the number of
\* commands drawn stops growing.
C1_NoTickAfterTeardown ==
    [][ /\ (phase = "stopped") => (ticks' = ticks /\ cmds' = cmds /\ pending' = {})
        /\ (phase = "running" /\ phase' = "stopped") =>
              (pending = {lastFrame[1]} /\ pending' = {}) ]_vars
C1_Witness == FrameRanAfterTeardown /\ ticks >= 1

\* the part of a handler's log that follows its cancelAnimationFrame (all of
\* it when the handler does not cancel: the cancellation is then earlier)
CancelAt(log) == {j \in 1..Len(log) : log[j].op = "cancelAnimationFrame"}
AfterCancel(log) ==
    IF CancelAt(log) = {} THEN log ELSE SubSeq(log, Min(CancelAt(log)) + 1, Len(log))
IsSurfaceCmd(c) == c.op \in SurfaceOps
SurfaceCmds(log) == SelectSeq(log, IsSurfaceCmd)

IsCurveAt(log, j, i) ==
    /\ log[j].op = "strokeStyle"
    /\ log[j + 1].op = "beginPath"
    /\ log[j + 2] = Cmd("moveTo", <<N(0), N(4 * i)>>)
    /\ log[j + 3].op = "bezierCurveTo"
    /\ log[j + 4].op = "bezierCurveTo"
    /\ log[j + 5].op = "bezierCurveTo"
    /\ log[j + 6].op = "stroke"
IsTickLog(log) ==
    /\ Len(log) = 7 * NumCurves + 2
    /\ log[1] = Cmd("clearRect", <<N(0), N(0), N(CanvasWidth), N(CanvasHeight)>>)
    /\ \A i \in 0..(NumCurves - 1) : IsCurveAt(log, 7 * i + 2, i)
    /\ log[Len(log)].op = "requestAnimationFrame"

\* C8: every tick first clears the whole surface, then for each curve
\* i = 0 .. 69 in increasing order sets the stroke color and renders one
\* 4-point curve, and only then requests the next frame.
C8_TickOrder == (phase = "running") => IsTickLog(cmds)
C8_Witness ==
    /\ phase = "running" /\ ticks >= 2
    /\ Count(cmds, "strokeStyle") = NumCurves
    /\ elapsed[1] > 0

\* C9, as claimed: startFrame is taken from the timestamp of the first tick
\* (also when it is 0) and never changes afterwards, and the elapsed time of
\* every tick is non-negative and not less than that of the tick before.
C9_ElapsedMonotonic ==
    [][ /\ (startFrame = Undefined /\ startFrame' # Undefined) => startFrame' = <<now>>
        /\ (startFrame # Undefined) => startFrame' = startFrame
        /\ (elapsed' # Undefined) => elapsed'[1] >= 0
        /\ (elapsed # Undefined /\ elapsed' # Undefined) => elapsed'[1] >= elapsed[1] ]_vars

\* C10: while running, after every tick exactly one frame request is
\* pending, the one whose handle is in lastFrame; so, the host's frames going
\* on and no teardown coming, another tick runs, whatever progress is.
C10_SelfPerpetuating ==
    /\ [](phase = "running" => pending = {lastFrame[1]})
    /\ \A n \in 0..(MaxTicks - 1) :
          (phase = "running" /\ ticks = n) ~> (ticks > n \/ phase = "stopped")
C10_Witness ==
    /\ phase = "running"
    /\ elapsed[1] > Period
    /\ ticks >= 3
    /\ pending = {lastFrame[1]}

============================================================================
